---- MODULE Spec2Model ----
(***************************************************************************)
(* The type IR of src/ir/ty.rs: Type / TypeKind, the four derivability     *)
(* predicates, and the ingestion of foreign (clang) types by               *)
(* Type::from_clang_ty and Type::parse.                                    *)
(*                                                                         *)
(* An ItemId is an index into ctx.items, the registry of the build         *)
(* context.  A predicate's answer is one of "true", "false" or "overflow": *)
(* "overflow" is a call of a predicate on a type made while the same call  *)
(* has not returned, i.e. a recursion that never returns.                  *)
(***************************************************************************)
EXTENDS Integers, Sequences, FiniteSets, TLC

VARIABLES ctx, last, aborted, llvm_stable, unit

vars == <<ctx, last, aborted, llvm_stable, unit>>

(* ------------------------------------------------------------------ *)
(* Bounds of the model.                                                 *)
(* ------------------------------------------------------------------ *)

\* Number of freely chosen types in the registry the analysis runs on.
NumTypes == 1

\* const RUST_DERIVE_IN_ARRAY_LIMIT: usize = 32usize;
RUST_DERIVE_IN_ARRAY_LIMIT == 32

(* ------------------------------------------------------------------ *)
(* Type and TypeKind.                                                   *)
(* ------------------------------------------------------------------ *)

\* enum TypeKind.  id is the ItemId of Alias, Array, Pointer and Reference
\* (0 when the variant holds none), len the length of Array, info the
\* payload of Comp (the ids of its field types) and Function (the id of
\* its return type).
TypeKind(tag, id, len, info) ==
    [tag |-> tag, id |-> id, len |-> len, info |-> info]

LeafTags == {"Void", "NullPtr", "Int", "Float", "Function", "Enum", "Named"}

\* Type::new: the flags start false.
Type_new(name, layout, kind) ==
    [name |-> name, layout |-> layout, opaque |-> FALSE, hide |-> FALSE,
     kind |-> kind, is_toplevel |-> FALSE]

\* TypeResolver::resolve_type: the Type registered under an ItemId.
resolve_type(items, id) == items[id]

\* A slip in is_opaque: the flag is never reported.
is_opaque_Never(t, items) == FALSE

\* Type::is_opaque
is_opaque(t, items) == t.opaque

RECURSIVE can_derive_debug(_, _, _)
RECURSIVE can_derive_copy(_, _, _)
RECURSIVE can_derive_copy_in_array(_, _, _)
RECURSIVE has_destructor(_, _, _)

\* A call of a predicate on a type: stack holds the calls that have not
\* returned.  A call that is already on the stack computes what its
\* earlier instance is still computing: the recursion never returns.
Frame(pred, t) == <<pred, t>>

\* Conjunction and disjunction over the answers of a composite's fields.
AllOf(rs) ==
    IF "overflow" \in rs THEN "overflow"
    ELSE IF "false" \in rs THEN "false" ELSE "true"

AnyOf(rs) ==
    IF "overflow" \in rs THEN "overflow"
    ELSE IF "true" \in rs THEN "true" ELSE "false"

\* CompInfo::can_derive_debug: every field's type derives Debug.
CompInfo_can_derive_debug(info, items, stack) ==
    AllOf({can_derive_debug(resolve_type(items, f), items, stack) : f \in info})

\* CompInfo::can_derive_copy: every field's type derives Copy.
CompInfo_can_derive_copy(info, items, stack) ==
    AllOf({can_derive_copy(resolve_type(items, f), items, stack) : f \in info})

\* CompInfo::has_destructor: some field's type has a destructor.
CompInfo_has_destructor(info, items, stack) ==
    AnyOf({has_destructor(resolve_type(items, f), items, stack) : f \in info})

\* A slip in the array arm: the length is compared with < instead of <=.
ArrayWithinLimit_Strict(len) == len < RUST_DERIVE_IN_ARRAY_LIMIT

\* `len <= RUST_DERIVE_IN_ARRAY_LIMIT` of the Array arms.
ArrayWithinLimit(len) == len <= RUST_DERIVE_IN_ARRAY_LIMIT

\* A slip in the catch-all arm: a Pointer or Reference resolves its target.
OtherArmCopy_Follow(t, items, stack) ==
    IF t.kind.tag \in {"Pointer", "Reference"}
    THEN can_derive_copy(resolve_type(items, t.kind.id), items, stack)
    ELSE "true"

\* `_ => true` of can_derive_copy: every kind but Array, Alias and Comp,
\* Pointer and Reference among them; the stored id is not resolved.
OtherArmCopy(t, items, stack) == "true"

\* Type::can_derive_debug
can_derive_debug(t, items, stack) ==
    IF Frame("can_derive_debug", t) \in stack THEN "overflow"
    ELSE IF is_opaque(t, items) THEN "false"
    ELSE LET s == stack \cup {Frame("can_derive_debug", t)}
         IN  CASE t.kind.tag = "Array" ->
                    IF ArrayWithinLimit(t.kind.len)
                    THEN can_derive_debug(resolve_type(items, t.kind.id), items, s)
                    ELSE "false"
               [] t.kind.tag = "Alias" ->
                    can_derive_debug(resolve_type(items, t.kind.id), items, s)
               [] t.kind.tag = "Comp" ->
                    CompInfo_can_derive_debug(t.kind.info, items, s)
               [] OTHER -> "true"

\* Type::can_derive_copy
can_derive_copy(t, items, stack) ==
    IF Frame("can_derive_copy", t) \in stack THEN "overflow"
    ELSE IF is_opaque(t, items) THEN "false"
    ELSE LET s == stack \cup {Frame("can_derive_copy", t)}
         IN  CASE t.kind.tag = "Array" ->
                    IF ArrayWithinLimit(t.kind.len)
                    THEN can_derive_copy(resolve_type(items, t.kind.id), items, s)
                    ELSE "false"
               [] t.kind.tag = "Alias" ->
                    can_derive_copy(resolve_type(items, t.kind.id), items, s)
               [] t.kind.tag = "Comp" ->
                    CompInfo_can_derive_copy(t.kind.info, items, s)
               [] OTHER -> OtherArmCopy(t, items, s)

\* A slip in the Named arm: a template parameter is treated like any
\* other leaf.
NamedArmInArray_AsCopy(t, items, stack) == can_derive_copy(t, items, stack)

\* `TypeKind::Named(..) => false` of can_derive_copy_in_array.
NamedArmInArray(t, items, stack) == "false"

\* A slip in the catch-all arm: the answer is a constant.
OtherArmInArray_True(t, items, stack) == "true"

\* `_ => self.can_derive_copy(type_resolver)` of can_derive_copy_in_array.
OtherArmInArray(t, items, stack) == can_derive_copy(t, items, stack)

\* `TypeKind::Alias(_, t) | TypeKind::Array(t, _)` of
\* can_derive_copy_in_array: neither the opaque flag nor the length is read.
WrapperArmInArray(t, items, stack) ==
    can_derive_copy_in_array(resolve_type(items, t.kind.id), items, stack)

\* Type::can_derive_copy_in_array
can_derive_copy_in_array(t, items, stack) ==
    IF Frame("can_derive_copy_in_array", t) \in stack THEN "overflow"
    ELSE LET s == stack \cup {Frame("can_derive_copy_in_array", t)}
         IN  CASE t.kind.tag \in {"Alias", "Array"} -> WrapperArmInArray(t, items, s)
               [] t.kind.tag = "Named" -> NamedArmInArray(t, items, s)
               [] OTHER -> OtherArmInArray(t, items, s)

\* Type::has_destructor
has_destructor(t, items, stack) ==
    IF Frame("has_destructor", t) \in stack THEN "overflow"
    ELSE IF is_opaque(t, items) THEN "true"
    ELSE LET s == stack \cup {Frame("has_destructor", t)}
         IN  CASE t.kind.tag \in {"Alias", "Array"} ->
                    has_destructor(resolve_type(items, t.kind.id), items, s)
               [] t.kind.tag = "Comp" ->
                    CompInfo_has_destructor(t.kind.info, items, s)
               [] OTHER -> "false"

(* ------------------------------------------------------------------ *)
(* Foreign types (clang::Type).                                         *)
(* ------------------------------------------------------------------ *)

\* Deepest nesting of a foreign type fed to the ingestion.
MaxDepth == 1

\* CXType kinds with no nested type.  Int stands for the builtin kinds,
\* Vector for the kinds from_clang_ty has no arm for.
BaseKinds ==
    {"Int", "Invalid", "Vector", "Record", "Typedef", "Unexposed", "Enum"}

\* CXType kinds with one nested type: the pointee, the element, the
\* return type of a prototype, the named type of an elaborated type.
WrapperKinds ==
    {"Pointer", "LValueReference", "VariableArray", "DependentSizedArray",
     "IncompleteArray", "FunctionProto", "ConstantArray", "Elaborated"}

\* A foreign type is a sequence of nodes, outermost first.
WrapperNodes ==
    {[kind |-> k, size |-> 0] : k \in WrapperKinds \ {"ConstantArray"}}
    \cup {[kind |-> "ConstantArray", size |-> RUST_DERIVE_IN_ARRAY_LIMIT]}

RECURSIVE TypesOfDepth(_)
TypesOfDepth(d) ==
    IF d = 0 THEN {<<[kind |-> b, size |-> 0]>> : b \in BaseKinds}
    ELSE {<<w>> \o t : w \in WrapperNodes, t \in TypesOfDepth(d - 1)}

ForeignTypes == UNION {TypesOfDepth(d) : d \in 0..MaxDepth}

\* clang::Type::kind
Kind(ty) == ty[1].kind

\* clang::Type::pointee_type, elem_type, named: the nested foreign type.
pointee_type(ty) == Tail(ty)
elem_type(ty) == Tail(ty)
named(ty) == Tail(ty)

\* clang::Type::array_size
array_size(ty) == ty[1].size

\* clang::Type::fallible_layout(..).ok(): no layout for a type without a
\* size of its own.
fallible_layout(ty) ==
    IF Kind(ty) \in {"Invalid", "IncompleteArray", "DependentSizedArray",
                     "VariableArray", "Unexposed", "FunctionProto"}
    THEN "None" ELSE "Some"

(* ------------------------------------------------------------------ *)
(* The build context and the ingestion.                                 *)
(* ------------------------------------------------------------------ *)

\* The Type of an outcome that carries none.
NoType == Type_new("None", "None", TypeKind("Void", 0, 0, {}))

\* What a call hands back: tag is AlreadyResolved, New, ErrRecurse,
\* ErrContinue, None (the `return None` of the invalid arm), Ok and Err
\* (Item::from_ty), Some (Type::parse) or Panic (a failed `.expect`);
\* c is the build context after the call.
Res(tag, id, type, c) == [tag |-> tag, id |-> id, type |-> type, ctx |-> c]

\* The dedup table: the ItemId a foreign type is registered under, 0 for none.
Lookup(c, ty) ==
    IF \E p \in c.resolved : p.ty = ty
    THEN (CHOOSE p \in c.resolved : p.ty = ty).id
    ELSE 0

\* BindgenContext: a Type is registered under a fresh ItemId, the next
\* index of items, and the foreign type it came from is recorded.
Register(c, ty, type) ==
    [items |-> Append(c.items, type),
     resolved |-> c.resolved \cup {[ty |-> ty, id |-> Len(c.items) + 1]}]

\* BindgenContext::builtin_or_resolved_ty: the id the foreign type is
\* registered under; a builtin type is registered when first met.
builtin_or_resolved_ty(ty, c) ==
    IF Lookup(c, ty) # 0 THEN [id |-> Lookup(c, ty), ctx |-> c]
    ELSE IF Kind(ty) = "Int"
    THEN [id |-> Len(c.items) + 1,
          ctx |-> Register(c, ty, Type_new("None", fallible_layout(ty),
                                           TypeKind("Int", 0, 0, {})))]
    ELSE [id |-> 0, ctx |-> c]

\* A slip in from_clang_ty: the kind is matched before the dedup table is
\* consulted, so a pointer or an array is built again.
AlreadyResolvedCheck_AfterKind(ty, c) ==
    IF Kind(ty) \in {"Pointer", "ConstantArray"}
    THEN [id |-> 0, ctx |-> c]
    ELSE builtin_or_resolved_ty(ty, c)

\* `if let Some(ty) = ctx.builtin_or_resolved_ty(ty)`: the first statement
\* of from_clang_ty, whatever the kind.
AlreadyResolvedCheck(ty, c) == builtin_or_resolved_ty(ty, c)

\* A slip in the catch-all arm: an unsupported kind is sent to the
\* declaration like a record.
UnsupportedArm_Recurse == "ErrRecurse"

\* `_ => return Err(ParseError::Continue)`
UnsupportedArm == "ErrContinue"

\* `CXType_Invalid => return None`: not a value of the declared
\* Result<TypeResult, ParseError>.
InvalidArm == "None"

\* A slip in the nested arms: the id stored is not the one the nested
\* ingestion returned.
NestedKind_OffByOne(tag, inner, len) == TypeKind(tag, inner + 1, len, {})

\* TypeKind::Pointer(inner), TypeKind::Reference(inner),
\* TypeKind::Array(inner, ty.array_size()).
NestedKind(tag, inner, len) == TypeKind(tag, inner, len, {})

\* The TypeKind tag of each arm that ingests a nested type.
NestedTag(k) ==
    CASE k = "Pointer" -> "Pointer"
      [] k = "LValueReference" -> "Reference"
      [] k \in {"VariableArray", "DependentSizedArray", "IncompleteArray"} -> "Pointer"
      [] k = "ConstantArray" -> "Array"

RECURSIVE from_clang_ty(_, _, _, _)
RECURSIVE Item_from_ty(_, _, _, _)

\* The innermost kind of a foreign type: the declaration it names.
DeclKind(ty) == ty[Len(ty)].kind

\* The Type the declaration of a record, typedef, enum or unexposed type
\* resolves to.  A typedef is a typedef of int; an unexposed type is a
\* template parameter.
DeclResolve(ty, c) ==
    LET k == DeclKind(ty)
        int == builtin_or_resolved_ty(<<[kind |-> "Int", size |-> 0]>>, c)
    IN  CASE k = "Record" ->
               Register(c, ty, Type_new("Some", fallible_layout(ty),
                                        TypeKind("Comp", 0, 0, {})))
          [] k = "Enum" ->
               Register(c, ty, Type_new("Some", fallible_layout(ty),
                                        TypeKind("Enum", 0, 0, {})))
          [] k = "Typedef" ->
               Register(int.ctx, ty, Type_new("Some", fallible_layout(ty),
                                              TypeKind("Alias", int.id, 0, {})))
          [] OTHER ->
               Register(c, ty, Type_new("Some", fallible_layout(ty),
                                        TypeKind("Named", 0, 0, {})))

\* Item::from_ty: ingest the foreign type and register what is new.
\* decl_ok tells whether the resolution through the declaration, asked
\* for by ParseError::Recurse, succeeds.
Item_from_ty(ty, c, decl_ok, stable) ==
    LET r == from_clang_ty(ty, c, decl_ok, stable)
    IN  CASE r.tag = "Panic" -> r
          [] r.tag = "AlreadyResolved" -> Res("Ok", r.id, NoType, r.ctx)
          [] r.tag = "New" ->
               Res("Ok", Len(r.ctx.items) + 1, NoType, Register(r.ctx, ty, r.type))
          [] r.tag = "ErrRecurse" ->
               IF decl_ok
               THEN LET d == DeclResolve(ty, r.ctx)
                    IN  Res("Ok", Len(d.items), NoType, d)
               ELSE Res("Err", 0, NoType, r.ctx)
          [] OTHER -> Res("Err", 0, NoType, r.ctx)

\* FunctionSig::from_ty: the return type is ingested.
FunctionSig_from_ty(ty, c, decl_ok, stable) ==
    Item_from_ty(Tail(ty), c, decl_ok, stable)

\* `.expect("Not able to resolve ..")`: the id of an Ok, a panic otherwise.
Expect(inner) ==
    IF inner.tag = "Ok" THEN inner ELSE Res("Panic", 0, NoType, inner.ctx)

\* Type::from_clang_ty
from_clang_ty(ty, c, decl_ok, stable) ==
    LET look == AlreadyResolvedCheck(ty, c)
        layout == fallible_layout(ty)
        k == Kind(ty)
    IN  IF look.id # 0 THEN Res("AlreadyResolved", look.id, NoType, look.ctx)
        ELSE CASE k = "Invalid" -> Res(InvalidArm, 0, NoType, c)
               [] k \in {"Pointer", "LValueReference", "VariableArray",
                         "DependentSizedArray", "IncompleteArray", "ConstantArray"} ->
                    LET nested == IF k \in {"Pointer", "LValueReference"}
                                  THEN pointee_type(ty) ELSE elem_type(ty)
                        inner == Expect(Item_from_ty(nested, c, decl_ok, stable))
                    IN  IF inner.tag # "Ok" THEN inner
                        ELSE Res("New", 0,
                                 Type_new("None", layout,
                                          NestedKind(NestedTag(k), inner.id,
                                                     IF k = "ConstantArray"
                                                     THEN array_size(ty) ELSE 0)),
                                 inner.ctx)
               [] k = "FunctionProto" ->
                    LET sig == Expect(FunctionSig_from_ty(ty, c, decl_ok, stable))
                    IN  IF sig.tag # "Ok" THEN sig
                        ELSE Res("New", 0,
                                 Type_new("None", layout,
                                          TypeKind("Function", 0, 0, {sig.id})),
                                 sig.ctx)
               [] k \in {"Record", "Typedef", "Unexposed", "Enum"} ->
                    Res("ErrRecurse", 0, NoType, c)
               [] k = "Elaborated" /\ ~stable ->
                    from_clang_ty(named(ty), c, decl_ok, stable)
               [] OTHER -> Res(UnsupportedArm, 0, NoType, c)

\* Type::parse (ClangSubItemParser): Some(item) only for a New.
Type_parse(ty, c, decl_ok, stable) ==
    IF Kind(ty) = "Invalid" THEN Res("None", 0, NoType, c)
    ELSE LET r == from_clang_ty(ty, c, decl_ok, stable)
         IN  CASE r.tag = "Panic" -> r
               [] r.tag = "New" -> Res("Some", 0, r.type, r.ctx)
               [] OTHER -> Res("None", 0, NoType, r.ctx)

(* ------------------------------------------------------------------ *)
(* The ingestion as a state machine.                                    *)
(* ------------------------------------------------------------------ *)

EmptyCtx == [items |-> <<>>, resolved |-> {}]

NoCall == [op |-> "none", ty |-> <<>>, tag |-> "none", id |-> 0, type |-> NoType]

Record(op, ty, r) ==
    [op |-> op, ty |-> ty, tag |-> r.tag, id |-> r.id, type |-> r.type]

\* The foreign types a run ingests: the type of one declaration of the
\* translation unit, the types nested in it, and int.
Parts(ty) ==
    {SubSeq(ty, i, Len(ty)) : i \in 1..Len(ty)} \cup {<<[kind |-> "Int", size |-> 0]>>}

Init ==
    /\ ctx = EmptyCtx
    /\ last = NoCall
    /\ aborted = FALSE
    /\ llvm_stable \in BOOLEAN
    /\ unit \in ForeignTypes

\* A call leaves its outcome in last and the context as it made it; a
\* panic ends the run.
Call(op, ty, r) ==
    /\ ~aborted
    /\ ctx' = r.ctx
    /\ last' = Record(op, ty, r)
    /\ aborted' = (r.tag = "Panic")
    /\ UNCHANGED <<llvm_stable, unit>>

CallFromClangTy ==
    \E ty \in Parts(unit), decl_ok \in BOOLEAN :
        Call("from_clang_ty", ty, from_clang_ty(ty, ctx, decl_ok, llvm_stable))

CallItemFromTy ==
    \E ty \in Parts(unit), decl_ok \in BOOLEAN :
        Call("Item_from_ty", ty, Item_from_ty(ty, ctx, decl_ok, llvm_stable))

CallTypeParse ==
    \E ty \in Parts(unit), decl_ok \in BOOLEAN :
        Call("parse", ty, Type_parse(ty, ctx, decl_ok, llvm_stable))

Next == CallFromClangTy \/ CallItemFromTy \/ CallTypeParse

Spec == Init /\ [][Next]_vars

(* ------------------------------------------------------------------ *)
(* The derivability analysis over a registry.                           *)
(* ------------------------------------------------------------------ *)

\* The registry analysed: NumTypes freely chosen types, then a plain
\* integer, a template parameter and a pointer to the first type.
FixedTypes ==
    <<Type_new("None", "Some", TypeKind("Int", 0, 0, {})),
      Type_new("Some", "None", TypeKind("Named", 0, 0, {})),
      Type_new("None", "Some", TypeKind("Pointer", 1, 0, {}))>>

Ids == 1..(NumTypes + Len(FixedTypes))

KindChoices ==
    {TypeKind(tag, 0, 0, {}) : tag \in LeafTags}
    \cup {TypeKind(tag, i, 0, {}) : tag \in {"Pointer", "Reference", "Alias"}, i \in Ids}
    \cup {TypeKind("Array", i, n, {}) :
             i \in Ids,
             n \in {RUST_DERIVE_IN_ARRAY_LIMIT, RUST_DERIVE_IN_ARRAY_LIMIT + 1}}
    \cup {TypeKind("Comp", 0, 0, fs) : fs \in SUBSET Ids}

Registries ==
    {free \o FixedTypes :
        free \in [1..NumTypes -> {Type_new("None", "Some", k) : k \in KindChoices}]}

NoAnswer ==
    [op |-> "none", id |-> 0, debug |-> "none", copy |-> "none",
     copy_in_array |-> "none", destructor |-> "none"]

DeriveInit ==
    /\ ctx \in {[items |-> r, resolved |-> {}] : r \in Registries}
    /\ last = NoAnswer
    /\ aborted = FALSE
    /\ llvm_stable = FALSE
    /\ unit = <<>>

\* The declaring context marks a type opaque after its construction and
\* before the analysis starts.
MarkOpaque ==
    \E id \in Ids :
        /\ last.op = "none"
        /\ ~ctx.items[id].opaque
        /\ ctx' = [ctx EXCEPT !.items[id].opaque = TRUE]
        /\ UNCHANGED <<last, aborted, llvm_stable, unit>>

\* A consumer asks the four predicates of one registered type.
Analyse ==
    \E id \in Ids :
        LET t == resolve_type(ctx.items, id)
        IN  /\ last' = [op |-> "derive", id |-> id,
                        debug |-> can_derive_debug(t, ctx.items, {}),
                        copy |-> can_derive_copy(t, ctx.items, {}),
                        copy_in_array |-> can_derive_copy_in_array(t, ctx.items, {}),
                        destructor |-> has_destructor(t, ctx.items, {})]
            /\ UNCHANGED <<ctx, aborted, llvm_stable, unit>>

DeriveNext == MarkOpaque \/ Analyse

DeriveSpec == DeriveInit /\ [][DeriveNext]_vars

(* ------------------------------------------------------------------ *)
(* Properties of the ingestion (specification Spec).                  *)
(* ------------------------------------------------------------------ *)

\* C1: a call of from_clang_ty or Item::from_ty on a foreign type the
\* dedup table already holds returns the id it is registered under
\* (AlreadyResolved(id), whatever the kind) and leaves the registry as it
\* was: no Type is built, nothing nested is ingested, and no foreign type
\* is ever registered under two ids.
C1_Dedup ==
    [][/\ (/\ last'.op \in {"from_clang_ty", "Item_from_ty"}
           /\ Lookup(ctx, last'.ty) # 0)
          => /\ last'.tag = (IF last'.op = "from_clang_ty"
                             THEN "AlreadyResolved" ELSE "Ok")
             /\ last'.id = Lookup(ctx, last'.ty)
             /\ ctx' = ctx
       /\ \A p, q \in ctx'.resolved : p.ty = q.ty => p.id = q.id]_vars

\* C1 witness: a pointer registered by an earlier Item::from_ty is
\* ingested again and comes back AlreadyResolved under its id.
C1_Witness ==
    /\ last.op = "from_clang_ty"
    /\ Kind(last.ty) = "Pointer"
    /\ last.tag = "AlreadyResolved"
    /\ last.id = Lookup(ctx, last.ty)
    /\ ctx.items[last.id].kind.tag = "Pointer"

\* The kinds from_clang_ty has an arm for.
HandledKinds ==
    {"Invalid", "Pointer", "LValueReference", "VariableArray",
     "DependentSizedArray", "IncompleteArray", "FunctionProto", "Record",
     "Typedef", "Unexposed", "Enum", "ConstantArray", "Elaborated"}

\* C6: from_clang_ty on a foreign type the dedup lookup does not resolve
\* and whose kind has no arm returns Err(ParseError::Continue) and leaves
\* the registry (items and dedup table) unchanged.
C6_UnsupportedIsSkip ==
    [][(/\ last'.op = "from_clang_ty"
        /\ Kind(last'.ty) \notin HandledKinds
        /\ builtin_or_resolved_ty(last'.ty, ctx).id = 0)
       => (last'.tag = "ErrContinue" /\ ctx' = ctx)]_vars

\* C6 witness: a vector type was handed to from_clang_ty with types
\* already registered, and was skipped.
C6_Witness ==
    /\ last.op = "from_clang_ty"
    /\ Kind(last.ty) = "Vector"
    /\ last.tag = "ErrContinue"
    /\ Len(ctx.items) > 0

\* C7: the failure of a nested ingestion never aborts the run: no call
\* ends in a panic.
C7_RunNotAborted == ~aborted /\ last.tag # "Panic"

\* C8: from_clang_ty on an unresolved foreign type of kind invalid returns
\* the fatal error variant of its Result, and Type::parse on an invalid
\* type yields no Type.
C8_InvalidIsFatalError ==
    /\ (last.op = "from_clang_ty" /\ Kind(last.ty) = "Invalid")
          => last.tag = "ErrFatal"
    /\ (last.op = "parse" /\ Kind(last.ty) = "Invalid")
          => last.tag = "None"

\* The ItemIds a Type's kind stores.
StoredIds(t) ==
    (IF t.kind.tag \in {"Pointer", "Reference", "Array", "Alias"}
     THEN {t.kind.id} ELSE {})
    \cup t.kind.info

\* C9: every ItemId stored in a registered Type, and in the Type a call
\* has just returned as New, is registered in the build context.
C9_NoDanglingIds ==
    /\ \A i \in 1..Len(ctx.items) :
          StoredIds(ctx.items[i]) \subseteq 1..Len(ctx.items)
    /\ last.tag \in {"New", "Some"}
          => StoredIds(last.type) \subseteq 1..Len(ctx.items)

\* C9 witness: a constant array was returned as New and its element id
\* resolves.
C9_Witness ==
    /\ last.tag = "New"
    /\ last.type.kind.tag = "Array"
    /\ last.type.kind.id \in 1..Len(ctx.items)

(* ------------------------------------------------------------------ *)
(* Properties of the analysis (specification DeriveSpec).             *)
(* ------------------------------------------------------------------ *)

\* The ids a predicate may resolve from a type that is neither a Pointer
\* nor a Reference.
DirectEdges(items, i) ==
    LET t == items[i]
    IN  IF t.kind.tag \in {"Alias", "Array"} THEN {t.kind.id}
        ELSE IF t.kind.tag = "Comp" THEN t.kind.info ELSE {}

RECURSIVE ReachIn(_, _, _)
ReachIn(items, from, n) ==
    IF n = 0 THEN from
    ELSE ReachIn(items, from \cup UNION {DirectEdges(items, i) : i \in from}, n - 1)

\* Every cycle of the type graph passes through a Pointer or a Reference.
CyclesThroughPointers(items) ==
    \A i \in 1..Len(items) :
        i \notin ReachIn(items, DirectEdges(items, i), Len(items))

\* C2: on a registry whose every cycle passes through a Pointer or a
\* Reference, each of the four predicates returns a boolean.
C2_Terminates ==
    (last.op = "derive" /\ CyclesThroughPointers(ctx.items))
    => /\ last.debug \in {"true", "false"}
       /\ last.copy \in {"true", "false"}
       /\ last.copy_in_array \in {"true", "false"}
       /\ last.destructor \in {"true", "false"}

\* C2 witness: a composite with a field that is a pointer to the
\* composite itself was analysed.
C2_Witness ==
    /\ last.op = "derive"
    /\ CyclesThroughPointers(ctx.items)
    /\ ctx.items[last.id].kind.tag = "Comp"
    /\ \E f \in ctx.items[last.id].kind.info :
          /\ ctx.items[f].kind.tag = "Pointer"
          /\ ctx.items[f].kind.id = last.id
    /\ last.copy = "true"
    /\ last.destructor = "false"

\* The answers the two predicates give for the element of an array.
ElemDebug(items, t) == can_derive_debug(resolve_type(items, t.kind.id), items, {})
ElemCopy(items, t) == can_derive_copy(resolve_type(items, t.kind.id), items, {})

\* C3 as stated: an Array derives Debug (Copy) iff its length is at most
\* 32 and its element derives Debug (Copy).
C3_ArrayThreshold_AsStated ==
    (last.op = "derive" /\ ctx.items[last.id].kind.tag = "Array")
    => LET t == ctx.items[last.id]
       IN  /\ (last.debug = "true") <=>
                 (t.kind.len <= 32 /\ ElemDebug(ctx.items, t) = "true")
           /\ (last.copy = "true") <=>
                 (t.kind.len <= 32 /\ ElemCopy(ctx.items, t) = "true")

\* C3 amended: an Array that is not opaque derives Debug (Copy) iff its
\* length is at most 32 and its element derives Debug (Copy); an Array
\* longer than 32 derives neither.
C3_ArrayThreshold ==
    (last.op = "derive" /\ ctx.items[last.id].kind.tag = "Array")
    => LET t == ctx.items[last.id]
       IN  /\ ~t.opaque =>
                 /\ (last.debug = "true") <=>
                       (t.kind.len <= 32 /\ ElemDebug(ctx.items, t) = "true")
                 /\ (last.copy = "true") <=>
                       (t.kind.len <= 32 /\ ElemCopy(ctx.items, t) = "true")
           /\ t.kind.len > 32 => (last.debug = "false" /\ last.copy = "false")

\* C3 witness: an array of 32 plain integers was analysed and derives
\* both.
C3_Witness ==
    /\ last.op = "derive"
    /\ ctx.items[last.id].kind.tag = "Array"
    /\ ctx.items[last.id].kind.len = 32
    /\ ~ctx.items[last.id].opaque
    /\ ctx.items[ctx.items[last.id].kind.id].kind.tag = "Int"
    /\ ~ctx.items[ctx.items[last.id].kind.id].opaque
    /\ last.debug = "true"
    /\ last.copy = "true"

\* C4: an opaque type derives neither Debug nor Copy, whatever its kind.
C4_OpaqueDerivesNothing ==
    (last.op = "derive" /\ ctx.items[last.id].opaque)
    => (last.debug = "false" /\ last.copy = "false")

\* C4 witness: an opaque alias of the plain integer was analysed.
C4_Witness ==
    /\ last.op = "derive"
    /\ ctx.items[last.id].opaque
    /\ ctx.items[last.id].kind.tag = "Alias"
    /\ ctx.items[ctx.items[last.id].kind.id].kind.tag = "Int"
    /\ ~ctx.items[ctx.items[last.id].kind.id].opaque

\* The type is reached from a Named type through Array and Alias nodes
\* only (none at all included).
RECURSIVE ChainEndsInNamed(_, _, _)
ChainEndsInNamed(items, i, n) ==
    LET t == items[i]
    IN  IF t.kind.tag = "Named" THEN TRUE
        ELSE IF t.kind.tag \in {"Alias", "Array"} /\ n > 0
        THEN ChainEndsInNamed(items, t.kind.id, n - 1)
        ELSE FALSE

\* C5: a Named type is not Copy inside an array although it is Copy by
\* itself when not opaque, and neither is any type reached from a Named
\* type through Array and Alias nodes.
C5_NamedInArray ==
    last.op = "derive"
    => LET t == ctx.items[last.id]
       IN  /\ t.kind.tag = "Named" =>
                 /\ last.copy_in_array = "false"
                 /\ ~t.opaque => last.copy = "true"
           /\ ChainEndsInNamed(ctx.items, last.id, Len(ctx.items)) =>
                 last.copy_in_array = "false"

\* C5 witness: an array of the template parameter, itself Copy, was
\* analysed.
C5_Witness ==
    /\ last.op = "derive"
    /\ ctx.items[last.id].kind.tag = "Array"
    /\ ctx.items[ctx.items[last.id].kind.id].kind.tag = "Named"
    /\ ~ctx.items[ctx.items[last.id].kind.id].opaque
    /\ last.copy = "true"
    /\ last.copy_in_array = "false"

\* C10 as stated: can_derive_copy_in_array implies can_derive_copy.
C10_InArrayStricter_AsStated ==
    (last.op = "derive" /\ CyclesThroughPointers(ctx.items))
    => (last.copy_in_array = "true" => last.copy = "true")

\* No Alias or Array on the chain from the type is opaque, and no Array
\* on it is longer than 32.
RECURSIVE ChainClean(_, _, _)
ChainClean(items, i, n) ==
    LET t == items[i]
    IN  IF t.kind.tag \in {"Alias", "Array"} /\ n > 0
        THEN /\ ~t.opaque
             /\ t.kind.tag = "Array" => t.kind.len <= 32
             /\ ChainClean(items, t.kind.id, n - 1)
        ELSE TRUE

\* C10 amended: can_derive_copy_in_array implies can_derive_copy for every
\* type such that no Alias or Array node on the chain from it (itself
\* included) is opaque or an Array longer than 32.
C10_InArrayStricter ==
    (/\ last.op = "derive"
     /\ CyclesThroughPointers(ctx.items)
     /\ ChainClean(ctx.items, last.id, Len(ctx.items)))
    => (last.copy_in_array = "true" => last.copy = "true")

\* C10 witness: an array of the plain integer, neither opaque, was
\* analysed and both predicates hold.
C10_Witness ==
    /\ last.op = "derive"
    /\ CyclesThroughPointers(ctx.items)
    /\ ChainClean(ctx.items, last.id, Len(ctx.items))
    /\ ctx.items[last.id].kind.tag = "Array"
    /\ ctx.items[ctx.items[last.id].kind.id].kind.tag = "Int"
    /\ last.copy_in_array = "true"
    /\ last.copy = "true"

====
